---- MODULE Spec2Model ----
(***************************************************************************)
(* The extension-side message relay of extension/js/background.js:         *)
(* the WebSocket connection with its reconnect backoff, the registry of    *)
(* popup ports with its fan-out, the router of inbound frames (badge,      *)
(* storage, notifications) and the two-step task submission.               *)
(*                                                                         *)
(* Time is counted in milliseconds and advances in steps of                *)
(* RECONNECT_DELAY (1000 ms), of which every delay in the script is a      *)
(* multiple.  A timer holds the milliseconds left until it is due; time    *)
(* does not advance past a due timer.                                      *)
(***************************************************************************)
EXTENDS Integers, Sequences, FiniteSets, TLC

\* ------------------------------------------------------------ constants
MAX_RECONNECT_ATTEMPTS == 5
RECONNECT_DELAY == 1000
BADGE_CLEAR_DELAY == 3000

\* --------------------------------------------------------------- bounds
\* Port objects that can exist at the same time.
MaxPorts == 2
\* connectWebSocket is called from outside the reconnect timer only while at
\* most this many sockets and reconnect timers are outstanding.
MaxOutstanding == 1
\* Badge-clear timers pending at the same time.
MaxBadgeTimers == 2
\* Notifications kept in the notification log.
MaxNotifications == 1
\* executeTask calls in one run.
MaxSubmissions == 2

Surfaces == 1..MaxPorts
Submissions == 1..MaxSubmissions

VARIABLES
    ws,                \* readyState of the socket the variable ws refers to
    superseded,        \* sockets closed by connectWebSocket whose close event is still to come
    reconnectAttempts,
    reconnectTimers,   \* setTimeout(connectWebSocket, ..): ms left, in scheduling order
    schedLog,          \* history: delays scheduled since the counter was last reset
    lastDelay,         \* history: delay of the reconnect scheduled last (0: none yet)
    chan,              \* per Port object: "none" | "popup" | "broken" | "other"
    ports,             \* the Set ports, in insertion order
    last,              \* history: the broadcastToPopups call of the step just taken
    shown,             \* history: per port, the connection_status it was last sent
    badgeText,
    badgeColor,
    badgeTimers,       \* setTimeout(clear badge, 3000): ms left, in scheduling order
    lastUpdate,        \* history: status of the task_update that last set the badge
    sinceUpdate,       \* history: ms since that task_update (capped)
    browserState,      \* chrome.storage.local browserState
    notifications,     \* chrome.notifications.create calls
    sub                \* per executeTask call: its position and its requests so far

connVars == <<ws, superseded, reconnectAttempts, reconnectTimers, schedLog,
              lastDelay>>
portVars == <<chan, ports, shown>>
routerVars == <<badgeText, badgeColor, badgeTimers, lastUpdate, sinceUpdate,
                browserState, notifications>>
vars == <<ws, superseded, reconnectAttempts, reconnectTimers, schedLog,
          lastDelay, chan, ports, last, shown,
          badgeText, badgeColor, badgeTimers, lastUpdate, sinceUpdate,
          browserState, notifications, sub>>

\* ------------------------------------------------------------- helpers
Range(s) == {s[i] : i \in 1..Len(s)}

\* Set.prototype.delete on the insertion-ordered Set.
SetDelete(s, p) == SelectSeq(s, LAMBDA q : q # p)

\* Set.prototype.add: a member keeps its place, a new element goes last.
SetAdd(s, p) == IF p \in Range(s) THEN s ELSE Append(s, p)

\* The sequence s without its i-th element.
RemoveAt(s, i) == SubSeq(s, 1, i - 1) \o SubSeq(s, i + 1, Len(s))

\* Every timer of s brought d ms nearer.
Elapse(s, d) == [i \in 1..Len(s) |-> s[i] - d]

Due(s) == {i \in 1..Len(s) : s[i] = 0}

Zero == [p \in Surfaces |-> 0]

\* port.postMessage throws on a port whose channel is gone.
PostMessageThrows(c, p) == c[p] # "popup"

\* --------------------------------------------------- broadcastToPopups
\* ForEachPort without the try/catch around postMessage: the first throw ends
\* the loop (and nothing is deleted).
RECURSIVE ForEachPortAbort(_, _, _, _)
ForEachPortAbort(c, order, i, acc) ==
    IF i > Len(order) THEN acc
    ELSE LET p == order[i]
             tried == [acc.tried EXCEPT ![p] = @ + 1]
         IN  IF PostMessageThrows(c, p)
             THEN [acc EXCEPT !.tried = tried]
             ELSE ForEachPortAbort(c, order, i + 1,
                      [acc EXCEPT !.tried = tried,
                                  !.got = [acc.got EXCEPT ![p] = @ + 1]])

\* One step of ports.forEach: the callback on order[i].  The loop runs over
\* the Set itself; deleting the element being visited does not disturb the
\* visit of the later ones.
RECURSIVE ForEachPort(_, _, _, _)
ForEachPort(c, order, i, acc) ==
    IF i > Len(order) THEN acc
    ELSE LET p == order[i]
             tried == [acc.tried EXCEPT ![p] = @ + 1]
         IN  IF PostMessageThrows(c, p)
             THEN ForEachPort(c, order, i + 1,
                      [acc EXCEPT !.tried = tried,
                                  !.ports = SetDelete(acc.ports, p)])
             ELSE ForEachPort(c, order, i + 1,
                      [acc EXCEPT !.tried = tried,
                                  !.got = [acc.got EXCEPT ![p] = @ + 1]])

\* A fan-out that runs the loop over the ports twice.
BroadcastResultTwice(c, regs, message) ==
    LET once == ForEachPort(c, regs, 1,
                    [msg |-> message, at |-> Range(regs), ports |-> regs,
                     tried |-> Zero, got |-> Zero])
    IN  ForEachPort(c, once.ports, 1, once)

\* broadcastToPopups(message) on the registry regs: the registry it leaves,
\* and per port the postMessage calls made (tried) and accepted (got).
BroadcastResult(c, regs, message) ==
    ForEachPort(c, regs, 1,
        [msg |-> message, at |-> Range(regs), ports |-> regs,
         tried |-> Zero, got |-> Zero])

\* What a port shows as the connection status after taking delivery of m.
Shows(old, m) ==
    IF "type" \in DOMAIN m /\ m.type = "connection_status" /\ "status" \in DOMAIN m
    THEN m.status ELSE old

broadcastToPopups(message) ==
    LET r == BroadcastResult(chan, ports, message)
    IN  /\ ports' = r.ports
        /\ last' = [msg |-> r.msg, at |-> r.at, tried |-> r.tried, got |-> r.got]
        /\ shown' = [p \in Surfaces |->
                        IF r.got[p] > 0 THEN Shows(shown[p], message) ELSE shown[p]]

\* The value of last after a step that made no broadcastToPopups call.
NoBroadcast == [msg |-> [type |-> "none"], at |-> {}, tried |-> Zero, got |-> Zero]

\* ------------------------------------------------- connection manager
ConnectionStatus(s) == [type |-> "connection_status", status |-> s]
WebSocketError == [type |-> "error", message |-> "WebSocket connection error"]

Live(s) == s \in {"CONNECTING", "OPEN"}

\* Sockets that still have events to deliver, and reconnect timers.
Outstanding == (IF Live(ws) THEN 1 ELSE 0) + superseded + Len(reconnectTimers)

\* connectWebSocket(): ws.close() on the socket at hand (a no-op on a closed
\* one; otherwise its close event follows later), then a new socket.
connectWebSocket ==
    /\ superseded' = IF Live(ws) THEN superseded + 1 ELSE superseded
    /\ ws' = "CONNECTING"

\* The body of ws.onclose, shared by every socket the script has created.
ShouldReconnectInclusive(n) == n <= MAX_RECONNECT_ATTEMPTS
ShouldReconnect(n) == n < MAX_RECONNECT_ATTEMPTS
ReconnectDelay(n) == RECONNECT_DELAY * n

onclose ==
    /\ broadcastToPopups(ConnectionStatus("disconnected"))
    /\ IF ShouldReconnect(reconnectAttempts)
       THEN /\ reconnectAttempts' = reconnectAttempts + 1
            /\ reconnectTimers' =
                   Append(reconnectTimers, ReconnectDelay(reconnectAttempts + 1))
            /\ schedLog' = Append(schedLog, ReconnectDelay(reconnectAttempts + 1))
            /\ lastDelay' = ReconnectDelay(reconnectAttempts + 1)
       ELSE UNCHANGED <<reconnectAttempts, reconnectTimers, schedLog, lastDelay>>

\* connectWebSocket(), a global function of the script, called by anything but
\* the reconnect timer (a manual reconnect), whatever state the socket is in.
Connect ==
    /\ Outstanding <= MaxOutstanding
    /\ connectWebSocket
    /\ last' = NoBroadcast
    /\ UNCHANGED <<reconnectAttempts, reconnectTimers, schedLog, lastDelay,
                   portVars, routerVars, sub>>

\* An open handler that leaves the attempt counter as it is.
SocketOpenKeepsCount ==
    /\ ws = "CONNECTING"
    /\ ws' = "OPEN"
    /\ broadcastToPopups(ConnectionStatus("connected"))
    /\ UNCHANGED <<superseded, reconnectAttempts, reconnectTimers, schedLog,
                   lastDelay, chan, routerVars, sub>>

\* ws.onopen of the current socket.
SocketOpen ==
    /\ ws = "CONNECTING"
    /\ ws' = "OPEN"
    /\ reconnectAttempts' = 0
    /\ schedLog' = <<>>
    /\ broadcastToPopups(ConnectionStatus("connected"))
    /\ UNCHANGED <<superseded, reconnectTimers, lastDelay, chan, routerVars, sub>>

\* The close event of the current socket.
SocketClose ==
    /\ Live(ws)
    /\ ws' = "CLOSED"
    /\ onclose
    /\ UNCHANGED <<superseded, chan, routerVars, sub>>

\* The close event of a socket that connectWebSocket has replaced.
SupersededClose ==
    /\ superseded > 0
    /\ superseded' = superseded - 1
    /\ onclose
    /\ UNCHANGED <<ws, chan, routerVars, sub>>

\* An error handler that also schedules a reconnect, as the close handler does.
onerrorReconnects ==
    /\ broadcastToPopups(WebSocketError)
    /\ reconnectAttempts' = reconnectAttempts + 1
    /\ reconnectTimers' =
           Append(reconnectTimers, ReconnectDelay(reconnectAttempts + 1))
    /\ UNCHANGED <<ws, superseded, schedLog, lastDelay>>

\* The body of ws.onerror: the error broadcast and nothing else.
onerror ==
    /\ broadcastToPopups(WebSocketError)
    /\ UNCHANGED connVars

\* ws.onerror, of the current socket or of a replaced one that is closing.
SocketError ==
    /\ Live(ws) \/ superseded > 0
    /\ onerror
    /\ UNCHANGED <<chan, routerVars, sub>>

\* setTimeout(connectWebSocket, RECONNECT_DELAY * reconnectAttempts) is due.
ReconnectTimer ==
    /\ \E i \in Due(reconnectTimers) :
           reconnectTimers' = RemoveAt(reconnectTimers, i)
    /\ connectWebSocket
    /\ last' = NoBroadcast
    /\ UNCHANGED <<reconnectAttempts, schedLog, lastDelay, portVars, routerVars,
                   sub>>

\* ------------------------------------------------------- port registry
\* The initial status that takes a socket still connecting for a connected one.
InitialStatusLive(s) == IF Live(s) THEN "connected" ELSE "disconnected"

\* The status of the message a new popup port is sent: connected for an open
\* socket, disconnected for a connecting, closing or closed one.
InitialStatus(s) == IF s = "OPEN" THEN "connected" ELSE "disconnected"

\* chrome.runtime.onConnect: a new Port object named name.
PortConnect(p, name) ==
    /\ chan[p] = "none"
    /\ chan' = [chan EXCEPT ![p] = name]
    /\ IF name = "popup"
       THEN /\ ports' = SetAdd(ports, p)
            /\ shown' = [shown EXCEPT ![p] = InitialStatus(ws)]
       ELSE UNCHANGED <<ports, shown>>
    /\ last' = NoBroadcast
    /\ UNCHANGED <<connVars, routerVars, sub>>

\* The channel of a popup port goes away; its onDisconnect is still to come.
ChannelBreak(p) ==
    /\ chan[p] = "popup"
    /\ chan' = [chan EXCEPT ![p] = "broken"]
    /\ last' = NoBroadcast
    /\ UNCHANGED <<connVars, ports, shown, routerVars, sub>>

\* PortConnect without its onDisconnect listener: the port stays in the Set.
PortDisconnectNoListener(p) ==
    /\ chan[p] # "none"
    /\ chan' = [chan EXCEPT ![p] = "none"]
    /\ shown' = [shown EXCEPT ![p] = "none"]
    /\ last' = NoBroadcast
    /\ UNCHANGED <<connVars, ports, routerVars, sub>>

\* port.onDisconnect (a listener only popup ports have).
PortDisconnect(p) ==
    /\ chan[p] # "none"
    /\ chan' = [chan EXCEPT ![p] = "none"]
    /\ ports' = IF chan[p] = "other" THEN ports ELSE SetDelete(ports, p)
    /\ shown' = [shown EXCEPT ![p] = "none"]
    /\ last' = NoBroadcast
    /\ UNCHANGED <<connVars, routerVars, sub>>

\* -------------------------------------------------------------- clock
Min(a, b) == IF a < b THEN a ELSE b
AgeCap == BADGE_CLEAR_DELAY + RECONNECT_DELAY

Tick ==
    /\ Due(reconnectTimers) = {}
    /\ Due(badgeTimers) = {}
    /\ reconnectTimers' = Elapse(reconnectTimers, RECONNECT_DELAY)
    /\ badgeTimers' = Elapse(badgeTimers, RECONNECT_DELAY)
    /\ sinceUpdate' = Min(sinceUpdate + RECONNECT_DELAY, AgeCap)
    /\ last' = NoBroadcast
    /\ UNCHANGED <<ws, superseded, reconnectAttempts, schedLog, lastDelay,
                   portVars, badgeText, badgeColor, lastUpdate, browserState,
                   notifications, sub>>

\* ------------------------------------------------------ inbound frames
\* A frame is the text of event.data: text that is no JSON, the JSON of null,
\* of a number, or of an object with the fields obj.
InboundObjects ==
    {[type |-> "task_update", status |-> st] :
         st \in {"running", "completed", "failed", "queued"}}
    \cup {[type |-> "browser_state", state |-> b] : b \in {"s1", "s2"}}
    \cup {[type |-> "error", error |-> e] : e \in {"boom", ""}}
    \cup {[type |-> "error", message |-> "boom"]}
    \cup {ConnectionStatus("connected")}
    \cup {[type |-> "ping"], [type |-> "task_created", taskId |-> "t1"],
          [type |-> "unknown_future_type", x |-> 1], [x |-> 1]}

Frames ==
    {[text |-> "garbage"], [text |-> "null"], [text |-> "number"]}
    \cup {[text |-> "object", obj |-> o] : o \in InboundObjects}

\* JSON.parse(event.data): throws on text that is no JSON; null and a number
\* are values with no fields.
JSONParse(raw) ==
    CASE raw.text = "garbage" -> [ok |-> FALSE]
      [] raw.text = "null"    -> [ok |-> TRUE, value |-> [json |-> "null"]]
      [] raw.text = "number"  -> [ok |-> TRUE, value |-> [json |-> "number"]]
      [] raw.text = "object"  -> [ok |-> TRUE, value |-> raw.obj]

IsNull(m) == "json" \in DOMAIN m /\ m.json = "null"

\* message.type, "undefined" where the value has no such property.
TypeOf(m) == IF "type" \in DOMAIN m THEN m.type ELSE "undefined"
StatusOf(m) == IF "status" \in DOMAIN m THEN m.status ELSE "undefined"
ErrorOf(m) == IF "error" \in DOMAIN m THEN m.error ELSE "undefined"

\* ------------------------------------------------------ message router
\* handleTaskUpdate: the badge text and colour per status, and the timer
\* that clears the text 3000 ms after a completed.
BadgeFor(st) ==
    CASE st = "running"   -> [text |-> "run",  color |-> "#FFC107"]
      [] st = "completed" -> [text |-> "ok",   color |-> "#4CAF50"]
      [] st = "failed"    -> [text |-> "fail", color |-> "#F44336"]

SetsBadge(st) == st \in {"running", "completed", "failed"}
StartsClearTimer(st) == st = "completed"

handleTaskUpdate(message) ==
    LET st == StatusOf(message)
    IN  IF SetsBadge(st)
        THEN /\ badgeText' = BadgeFor(st).text
             /\ badgeColor' = BadgeFor(st).color
             /\ badgeTimers' = IF StartsClearTimer(st)
                               THEN Append(badgeTimers, BADGE_CLEAR_DELAY)
                               ELSE badgeTimers
             /\ lastUpdate' = st
             /\ sinceUpdate' = 0
        ELSE UNCHANGED <<badgeText, badgeColor, badgeTimers, lastUpdate, sinceUpdate>>

handleBrowserState(message) ==
    browserState' = message.state

\* An error handler that raises no notification for an error without text.
handleErrorWithText(message) ==
    notifications' = IF ErrorOf(message) \in {"", "undefined"}
                     THEN notifications
                     ELSE Append(notifications, ErrorOf(message))

\* handleError: one chrome.notifications.create call, its message the error
\* field of the frame whatever that is.
handleError(message) ==
    notifications' = Append(notifications, ErrorOf(message))

\* A switch whose error case is the default case.
DispatchDefaultError(message) ==
    CASE IsNull(message) -> "throws"
      [] TypeOf(message) \in {"task_update", "browser_state"} -> TypeOf(message)
      [] OTHER -> "error"

\* The switch of handleWebSocketMessage.  Reading message.type of null throws,
\* which the catch of ws.onmessage swallows.
Dispatch(message) ==
    CASE IsNull(message) -> "throws"
      [] TypeOf(message) \in {"task_update", "browser_state", "error"} -> TypeOf(message)
      [] OTHER -> "none"

\* handleWebSocketMessage: the broadcast, then the switch.
handleWebSocketMessage(message) ==
    /\ broadcastToPopups(message)
    /\ CASE Dispatch(message) = "task_update" ->
                /\ handleTaskUpdate(message)
                /\ UNCHANGED <<browserState, notifications>>
         [] Dispatch(message) = "browser_state" ->
                /\ handleBrowserState(message)
                /\ UNCHANGED <<badgeText, badgeColor, badgeTimers, lastUpdate,
                               sinceUpdate, notifications>>
         [] Dispatch(message) = "error" ->
                /\ handleError(message)
                /\ UNCHANGED <<badgeText, badgeColor, badgeTimers, lastUpdate,
                               sinceUpdate, browserState>>
         [] OTHER -> UNCHANGED routerVars

\* The frames the bounds leave room for.
WithinBounds(raw) ==
    LET v == JSONParse(raw)
    IN  v.ok =>
          /\ (Dispatch(v.value) = "task_update" /\ StartsClearTimer(StatusOf(v.value)))
                 => Len(badgeTimers) < MaxBadgeTimers
          /\ Dispatch(v.value) = "error" => Len(notifications) < MaxNotifications

\* ws.onmessage of the current socket, which is open.
Message(raw) ==
    /\ ws = "OPEN"
    /\ WithinBounds(raw)
    /\ IF JSONParse(raw).ok
       THEN /\ handleWebSocketMessage(JSONParse(raw).value)
            /\ UNCHANGED <<connVars, chan, sub>>
       ELSE /\ last' = NoBroadcast
            /\ UNCHANGED <<connVars, portVars, routerVars, sub>>

\* The timer of a completed task_update is due: the badge text is cleared.
BadgeTimer ==
    /\ Due(badgeTimers) # {}
    /\ badgeTimers' = Tail(badgeTimers)
    /\ badgeText' = ""
    /\ last' = NoBroadcast
    /\ UNCHANGED <<connVars, portVars, badgeColor, lastUpdate, sinceUpdate,
                   browserState, notifications, sub>>

\* ------------------------------------------------------ task submitter
\* executeTask(task) suspends at its three awaits: the create request (pc
\* "create"), response.json() (pc "json") and the execute request (pc
\* "execute").  requests and out are history: the execute requests issued and
\* the messages broadcast by this call.
IdleSub == [pc |-> "idle", create |-> "none", taskId |-> "none",
            exec |-> "none", requests |-> <<>>, out |-> <<>>]

FetchOutcomes == {"ok", "notok", "neterr"}

\* What response.json() settles with: a rejection, null, or an object whose
\* task_id is t1, t2 or missing.
CreateBodies == {"garbage", "null", "t1", "t2", "undefined"}

\* The broadcast reading taskData.taskId, a property the response does not have.
TaskCreatedWrongKey(t) == [type |-> "task_created", taskId |-> "undefined"]

TaskCreated(t) == [type |-> "task_created", taskId |-> t]
TaskError(cause) ==
    [type |-> "error", message |-> <<"Failed to execute task: ", cause>>]

\* The error.message the catch block sees.
CreateFailure(outcome) ==
    IF outcome = "notok" THEN "Failed to create task" ELSE "Failed to fetch"
ExecuteFailure(outcome) ==
    IF outcome = "notok" THEN "Failed to execute task" ELSE "Failed to fetch"
BodyFailure(body) ==
    IF body = "garbage" THEN "Unexpected token" ELSE "Cannot read properties of null"

\* fetch rejects on a network failure alone: a check of response.ok left out
\* lets a non-success response through.
CreateThrowsOnReject(outcome) == outcome = "neterr"
ExecuteThrowsOnReject(outcome) == outcome = "neterr"

\* The create request rejects, or if (!response.ok) throws.
CreateThrows(outcome) == outcome # "ok"
\* The execute request rejects, or if (!executeResponse.ok) throws.
ExecuteThrows(outcome) == outcome # "ok"
\* await response.json() rejects, or taskData.task_id throws on null.
BodyThrows(body) == body \in {"garbage", "null"}

\* A catch block that throws the error on: no broadcast, and the promise of
\* the call is rejected.
CatchRethrows(i, cause, rec) ==
    /\ sub' = [sub EXCEPT ![i] = [rec EXCEPT !.pc = "rejected"]]
    /\ last' = NoBroadcast
    /\ UNCHANGED <<ports, shown>>

\* The catch block: one error broadcast, and the call is over.
Catch(i, cause, rec) ==
    /\ broadcastToPopups(TaskError(cause))
    /\ sub' = [sub EXCEPT ![i] =
                  [rec EXCEPT !.pc = "done", !.out = Append(@, TaskError(cause))]]

\* port.onMessage of a popup port: execute_task starts executeTask, which
\* issues the create request; any other message is ignored.
PortMessage(p, i, mtype) ==
    /\ chan[p] = "popup"
    /\ sub[i].pc = "idle"
    /\ \A j \in Submissions : j < i => sub[j].pc # "idle"
    /\ IF mtype = "execute_task"
       THEN sub' = [sub EXCEPT ![i] = [@ EXCEPT !.pc = "create"]]
       ELSE UNCHANGED sub
    /\ last' = NoBroadcast
    /\ UNCHANGED <<connVars, portVars, routerVars>>

\* The create request settles.
CreateResponse(i, outcome) ==
    /\ sub[i].pc = "create"
    /\ LET rec == [sub[i] EXCEPT !.create = outcome]
       IN  IF CreateThrows(outcome)
           THEN Catch(i, CreateFailure(outcome), rec)
           ELSE /\ sub' = [sub EXCEPT ![i] = [rec EXCEPT !.pc = "json"]]
                /\ last' = NoBroadcast
                /\ UNCHANGED <<ports, shown>>
    /\ UNCHANGED <<connVars, chan, routerVars>>

\* response.json() settles; with a task id at hand the execute request is
\* issued for it.
CreateBody(i, body) ==
    /\ sub[i].pc = "json"
    /\ LET rec == [sub[i] EXCEPT !.taskId = body]
       IN  IF BodyThrows(body)
           THEN Catch(i, BodyFailure(body), rec)
           ELSE /\ sub' = [sub EXCEPT ![i] =
                              [rec EXCEPT !.pc = "execute",
                                          !.requests = Append(@, body)]]
                /\ last' = NoBroadcast
                /\ UNCHANGED <<ports, shown>>
    /\ UNCHANGED <<connVars, chan, routerVars>>

\* The execute request settles.
ExecuteResponse(i, outcome) ==
    /\ sub[i].pc = "execute"
    /\ LET rec == [sub[i] EXCEPT !.exec = outcome]
       IN  IF ExecuteThrows(outcome)
           THEN Catch(i, ExecuteFailure(outcome), rec)
           ELSE /\ broadcastToPopups(TaskCreated(rec.taskId))
                /\ sub' = [sub EXCEPT ![i] =
                              [rec EXCEPT !.pc = "done",
                                          !.out = Append(@, TaskCreated(rec.taskId))]]
    /\ UNCHANGED <<connVars, chan, routerVars>>

\* ------------------------------------------------------ specifications
\* The state once the script has loaded: connectWebSocket() has run once.
Init ==
    /\ ws = "CONNECTING"
    /\ superseded = 0
    /\ reconnectAttempts = 0
    /\ reconnectTimers = <<>>
    /\ schedLog = <<>>
    /\ lastDelay = 0
    /\ chan = [p \in Surfaces |-> "none"]
    /\ ports = <<>>
    /\ last = NoBroadcast
    /\ shown = [p \in Surfaces |-> "none"]
    /\ badgeText = ""
    /\ badgeColor = ""
    /\ badgeTimers = <<>>
    /\ lastUpdate = "none"
    /\ sinceUpdate = 0
    /\ browserState = "none"
    /\ notifications = <<>>
    /\ sub = [i \in Submissions |-> IdleSub]

Registry ==
    \/ \E p \in Surfaces, name \in {"popup", "other"} : PortConnect(p, name)
    \/ \E p \in Surfaces : ChannelBreak(p)
    \/ \E p \in Surfaces : PortDisconnect(p)

\* Popups whose channels work, opening and closing.
Popups ==
    \/ \E p \in Surfaces : PortConnect(p, "popup")
    \/ \E p \in Surfaces : PortDisconnect(p)

Connection ==
    \/ SocketOpen
    \/ SocketClose
    \/ SocketError
    \/ ReconnectTimer
    \/ Tick

Supersede ==
    \/ Connect
    \/ SupersededClose

Router ==
    \/ \E raw \in Frames : Message(raw)
    \/ BadgeTimer

Submitter ==
    \/ \E p \in Surfaces, i \in Submissions, mtype \in {"execute_task", "other"} :
           PortMessage(p, i, mtype)
    \/ \E i \in Submissions, outcome \in FetchOutcomes : CreateResponse(i, outcome)
    \/ \E i \in Submissions, body \in CreateBodies : CreateBody(i, body)
    \/ \E i \in Submissions, outcome \in FetchOutcomes : ExecuteResponse(i, outcome)

Next == Registry \/ Connection \/ Supersede \/ Router \/ Submitter

Spec == Init /\ [][Next]_vars

\* The connection manager with the registry: every caller of
\* connectWebSocket, no inbound frames, no submissions.
NextConn == Registry \/ Connection \/ Supersede
SpecConn == Init /\ [][NextConn]_vars

\* The router and the clock, on a connection that only the script itself
\* reconnects, with no popup open.
NextRouter == Connection \/ Router
SpecRouter == Init /\ [][NextRouter]_vars

\* The fan-out of inbound frames: popups whose channels work and the frames of
\* a connection that stays open.
NextRelay ==
    \/ Popups
    \/ SocketOpen
    \/ \E raw \in Frames : Message(raw)
SpecRelay == Init /\ [][NextRelay]_vars

\* The task submitter, with popups whose channels work.
NextSubmit == Popups \/ Submitter
SpecSubmit == Init /\ [][NextSubmit]_vars

\* ------------------------------------------------------------- claims
Broadcasting == last.msg # NoBroadcast.msg

\* A port is registered from its connection under the name popup until its
\* onDisconnect or a failed delivery; its channel takes messages while
\* chan[p] = "popup".
Connected(p) == chan[p] = "popup"
Unregistered(p) == chan[p] \in {"none", "other"}

\* C1: every broadcastToPopups(e) call makes exactly one postMessage(e) call,
\* which is accepted, on every port connected as popup and not disconnected at
\* the moment of the call, makes one call per member of the registry and no
\* more, and makes none on a port that is not registered at that moment.
C1_BroadcastExactlyOnce ==
    Broadcasting =>
        \A p \in Surfaces :
            /\ Connected(p) => last.tried[p] = 1 /\ last.got[p] = 1
            /\ Unregistered(p) => last.tried[p] = 0 /\ last.got[p] = 0
            /\ last.tried[p] = (IF p \in last.at THEN 1 ELSE 0)
            /\ last.got[p] <= last.tried[p]

\* A disconnected broadcast that one port, shown connected before, received
\* while a port of another name received nothing.
C1_Witness ==
    /\ last.msg = [type |-> "connection_status", status |-> "disconnected"]
    /\ \E p, q \in Surfaces :
           /\ last.at = {p} /\ last.got[p] = 1 /\ shown[p] = "disconnected"
           /\ chan[q] = "other" /\ last.tried[q] = 0

Failed(p) == last.tried[p] > last.got[p]

\* C2: a port whose postMessage throws during a broadcast is out of the
\* registry after it, and a port outside the registry is sent nothing by the
\* next broadcast; in a broadcast in which a delivery fails every port with an
\* open channel still receives the message once, and it stays in the registry
\* for the later broadcasts as long as it is not disconnected.
C2_FailedSurfaceRemoved ==
    /\ [](\A p \in Surfaces :
            /\ Failed(p) => p \notin Range(ports)
            /\ (\E q \in Surfaces : Failed(q)) /\ Connected(p) => last.got[p] = 1
            /\ Connected(p) => p \in Range(ports))
    /\ [][\A p \in Surfaces :
            p \notin Range(ports) /\ chan'[p] = chan[p]
                => last'.tried[p] = 0 /\ last'.got[p] = 0]_vars

\* A broadcast in which the first port of the registry failed and the second
\* one received the message.
C2_Witness ==
    /\ Broadcasting
    /\ \E p, q \in Surfaces :
           /\ last.at = {p, q} /\ p # q
           /\ Failed(p) /\ chan[p] = "broken" /\ last.got[q] = 1
           /\ ports = <<q>>

\* C3: the reconnects scheduled since the attempt counter was last 0 (no open
\* in between) have the delays 1, 2, 3, .. times RECONNECT_DELAY in that order,
\* one per attempt counted, and there are never more than
\* MAX_RECONNECT_ATTEMPTS = 5 of them: once the counter is at 5 a close
\* schedules nothing.
C3_LinearBackoffCapped ==
    /\ Len(schedLog) = reconnectAttempts
    /\ Len(schedLog) <= MAX_RECONNECT_ATTEMPTS
    /\ \A i \in 1..Len(schedLog) : schedLog[i] = i * RECONNECT_DELAY

\* Five reconnects were scheduled with delays 1..5 times the base delay, the
\* last attempt has closed too, and nothing is scheduled any more.
C3_Witness ==
    /\ schedLog = <<1000, 2000, 3000, 4000, 5000>>
    /\ reconnectAttempts = 5
    /\ ws = "CLOSED"
    /\ superseded = 0
    /\ reconnectTimers = <<>>

\* C4: while the latest badge-setting task_update is a failed one, the badge
\* shows the failure indicator; nothing but a later task_update takes it away.
C4_FailureIndicatorStays ==
    lastUpdate = "failed" => badgeText = "fail"

\* C5: while the latest badge-setting task_update is a completed one, the
\* badge shows the success indicator until 3000 ms after that event and is
\* empty after them.
C5_SuccessIndicatorThreeUnits ==
    lastUpdate = "completed" =>
        /\ sinceUpdate < BADGE_CLEAR_DELAY => badgeText = "ok"
        /\ sinceUpdate > BADGE_CLEAR_DELAY => badgeText = ""

\* C6: an executeTask call whose create request got a non-success response
\* has issued no execute request, is over, and has broadcast one message, the
\* error message of the failed creation.
C6_CreateFailureStops ==
    \A i \in Submissions :
        sub[i].create = "notok" =>
            /\ sub[i].requests = <<>>
            /\ sub[i].pc = "done"
            /\ sub[i].out = <<[type |-> "error", message |->
                                 <<"Failed to execute task: ", "Failed to create task">>]>>

\* A call ended by a non-success create response just now, its error broadcast
\* delivered to a popup.
C6_Witness ==
    \E i \in Submissions, p \in Surfaces :
        /\ sub[i].create = "notok" /\ sub[i].pc = "done"
        /\ Len(sub[i].out) = 1 /\ last.msg = sub[i].out[1]
        /\ last.got[p] = 1

\* C7: an executeTask call whose create request succeeded and whose execute
\* request got a non-success response is over and has broadcast one message,
\* the error message of the failed execution, and no task_created.
C7_ExecuteFailureOneError ==
    \A i \in Submissions :
        sub[i].create = "ok" /\ sub[i].exec = "notok" =>
            /\ sub[i].pc = "done"
            /\ Len(sub[i].requests) = 1
            /\ sub[i].out = <<[type |-> "error", message |->
                                 <<"Failed to execute task: ", "Failed to execute task">>]>>

\* A call with task id t1 ended by a non-success execute response just now,
\* its error broadcast delivered to a popup.
C7_Witness ==
    \E i \in Submissions, p \in Surfaces :
        /\ sub[i].create = "ok" /\ sub[i].exec = "notok" /\ sub[i].pc = "done"
        /\ sub[i].requests = <<"t1">>
        /\ Len(sub[i].out) = 1 /\ last.msg = sub[i].out[1]
        /\ last.got[p] = 1

\* C8: an executeTask call whose create request returned task id t and whose
\* execute request succeeded has requested the execution of t once and has
\* broadcast one message, task_created with taskId t; the step that ends the
\* call hands that message once to every port whose channel is open at that
\* moment (executeTask has no reference to the submitting port).
C8_SuccessOneTaskCreated ==
    /\ [](\A i \in Submissions :
            sub[i].create = "ok" /\ sub[i].exec = "ok" =>
                /\ sub[i].pc = "done"
                /\ sub[i].requests = <<sub[i].taskId>>
                /\ sub[i].out = <<[type |-> "task_created", taskId |-> sub[i].taskId]>>)
    /\ [][\A i \in Submissions :
            sub[i].pc = "execute" /\ sub'[i].pc = "done" /\ sub'[i].exec = "ok" =>
                /\ last'.msg = [type |-> "task_created", taskId |-> sub[i].taskId]
                /\ \A p \in Surfaces : Connected(p) => last'.got[p] = 1
                /\ \A p \in Surfaces : Unregistered(p) => last'.tried[p] = 0]_vars

\* The second call, for t2, succeeded just now while the first one, for t1, is
\* waiting for its execute response; every port received the task_created of
\* t2.
C8_Witness ==
    /\ sub[1].pc = "execute" /\ sub[1].taskId = "t1"
    /\ sub[2].create = "ok" /\ sub[2].exec = "ok" /\ sub[2].taskId = "t2"
    /\ last.msg = [type |-> "task_created", taskId |-> "t2"]
    /\ last.at = Surfaces
    /\ \A p \in Surfaces : last.got[p] = 1

\* Object frames that the switch has no case for.
OtherFrames == {f \in Frames : f.text = "object" /\
                   TypeOf(f.obj) \notin {"task_update", "browser_state", "error"}}

\* C9: the step that takes an inbound frame whose type is none of task_update,
\* browser_state and error broadcasts the parsed frame as it is, once to every
\* port whose channel is open, and leaves the badge, its timers, the stored
\* browser state and the notifications as they were; nothing is thrown.
C9_OtherTypesBroadcastOnly ==
    [][\A f \in OtherFrames :
          Message(f) =>
              /\ last'.msg = f.obj
              /\ \A p \in Surfaces : Connected(p) => last'.got[p] = 1
              /\ UNCHANGED <<badgeText, badgeColor, badgeTimers, browserState,
                             notifications>>
              /\ Dispatch(f.obj) = "none"]_vars

\* The unknown_future_type frame was broadcast to a popup just now, with a
\* badge, a stored browser state and a notification in place.
C9_Witness ==
    /\ last.msg = [type |-> "unknown_future_type", x |-> 1]
    /\ \E p \in Surfaces : last.got[p] = 1
    /\ badgeText = "run"
    /\ browserState = "s1"
    /\ notifications = <<"boom">>

\* C10: at most one socket can still deliver an event to the relay: the
\* current one while it is connecting or open, or one that connectWebSocket
\* has closed and whose close event is still to come.
C10_SingleConnection ==
    (IF Live(ws) THEN 1 ELSE 0) + superseded <= 1

\* Frames that are no event of the schema: text that is no JSON, and JSON
\* values that are no object with a type field.
MalformedFrames == {f \in Frames : f.text # "object" \/ "type" \notin DOMAIN f.obj}

\* C11: the step that takes an inbound frame that is no JSON, or JSON that is
\* no object with a type field, makes no postMessage call on any port, leaves
\* the badge, its timers, the stored browser state and the notifications as
\* they were, and leaves the socket and the reconnect counter as they were.
C11_MalformedFrameDropped ==
    [][\A f \in MalformedFrames :
          Message(f) =>
              /\ \A p \in Surfaces : last'.tried[p] = 0
              /\ UNCHANGED routerVars
              /\ ws' = ws
              /\ reconnectAttempts' = reconnectAttempts]_vars

\* C12: the step that connects a port under the name popup puts it in the
\* registry and sends it the connection status, connected exactly when the
\* socket is open at that moment and disconnected otherwise (also while the
\* socket is connecting); no broadcast reaches the port before or in that
\* step, so the status is the first message it gets.
C12_RegisterSendsStatus ==
    [][\A p \in Surfaces :
          chan[p] = "none" =>
              /\ shown[p] = "none"
              /\ last'.tried[p] = 0
              /\ chan'[p] = "popup" =>
                     /\ p \in Range(ports')
                     /\ shown'[p] = (IF ws = "OPEN" THEN "connected" ELSE "disconnected")
                     /\ ws' = ws]_vars

\* A popup registered while the first socket of the script is still
\* connecting (nothing has opened or closed yet): it is in the registry and
\* was sent disconnected.
C12_Witness ==
    /\ ws = "CONNECTING" /\ reconnectAttempts = 0 /\ superseded = 0
    /\ reconnectTimers = <<>>
    /\ \E p \in Surfaces :
           chan[p] = "popup" /\ shown[p] = "disconnected" /\ ports = <<p>>

\* C13: with no call of connectWebSocket from outside the reconnect timer,
\* whatever the sockets do (fail to open, or open and close again), a
\* reconnect is never scheduled with a shorter delay than the reconnect
\* scheduled before it, so that the ceiling on the delays also bounds the
\* number of reconnects.
C13_BackoffNeverDecreases ==
    [][Len(reconnectTimers') > Len(reconnectTimers) => lastDelay' >= lastDelay]_vars

\* The socket at hand is closed by connectWebSocket run from the reconnect
\* timer.
TimerTearsDown ==
    /\ Len(reconnectTimers') < Len(reconnectTimers)
    /\ Live(ws)
    /\ superseded' = superseded + 1

\* C14: whatever the order of connectWebSocket calls, close events of the
\* current and of replaced sockets and reconnect timers, at most one
\* reconnect timer is pending, and no reconnect timer (one scheduled by the
\* close event of a replaced socket included) closes a socket that is
\* connecting or open.
C14_NoConcurrentReconnect ==
    /\ [](Len(reconnectTimers) <= 1)
    /\ [][~TimerTearsDown]_vars

\* The broadcast of the step being taken is the one ws.onmessage makes for the
\* frame f: the parsed value of f, or none where f does not parse.
BroadcastOf(f) ==
    IF JSONParse(f).ok THEN last'.msg = JSONParse(f).value ELSE last' = NoBroadcast

\* C15: every frame is handed to the router and to the ports by the step that
\* receives it, so in the order of receipt: a step in which a postMessage call
\* is made on a port is the open event of the socket (its connection status)
\* or the receipt of a frame, and in the latter a port is handed the parsed
\* frame of that step and nothing else, at most once, and a port outside the
\* registry nothing.
C15_InboundOrderKept ==
    [][(\E p \in Surfaces : last'.tried[p] > 0) =>
           \/ SocketOpen
           \/ \E f \in Frames :
                  /\ BroadcastOf(f)
                  /\ Message(f)
                  /\ \A p \in Surfaces :
                         /\ last'.got[p] <= 1
                         /\ (p \notin Range(ports) => last'.got[p] = 0)]_vars

\* A completed task_update was handed to both popups just now, the later
\* registered one first in the registry's order, after a browser_state frame
\* had been stored.
C15_Witness ==
    /\ last.msg = [type |-> "task_update", status |-> "completed"]
    /\ badgeText = "ok"
    /\ browserState = "s2"
    /\ ports = <<2, 1>>
    /\ last.got = [p \in Surfaces |-> 1]

\* C16: the step of a socket's error event broadcasts one message, of type
\* error, once to every port of the registry, and leaves the socket, the
\* reconnect counter and the pending reconnect timers as they were; a step
\* that schedules a reconnect is the close event of a socket.
C16_ErrorSchedulesNothing ==
    [][/\ SocketError =>
              /\ last'.msg.type = "error"
              /\ \A p \in Surfaces :
                     /\ last'.tried[p] = (IF p \in Range(ports) THEN 1 ELSE 0)
                     /\ (Connected(p) => last'.got[p] = 1)
              /\ UNCHANGED <<ws, superseded, reconnectAttempts, reconnectTimers>>
       /\ Len(reconnectTimers') > Len(reconnectTimers) =>
              /\ SocketClose \/ SupersededClose
              /\ last'.msg = ConnectionStatus("disconnected")]_vars

\* The error event of a socket of the second reconnect attempt was broadcast
\* to a popup just now: the socket is still connecting, the counter is at 2
\* and no reconnect is scheduled.
C16_Witness ==
    /\ last.msg = WebSocketError
    /\ \E p \in Surfaces : last.got[p] = 1
    /\ ws = "CONNECTING"
    /\ reconnectAttempts = 2
    /\ reconnectTimers = <<>>

\* Object frames with a type field: the events of the schema.
EventFrames == {f \in Frames : f.text = "object" /\ "type" \in DOMAIN f.obj}

\* A step of the relay that is neither a port event nor a socket event: the
\* receipt of a frame.
FrameStep == chan' = chan /\ ws' = ws

\* The side effect the switch performs for the event obj.
SideEffect(obj) ==
    /\ (obj.type = "task_update" /\ SetsBadge(obj.status)) =>
           /\ badgeText' = BadgeFor(obj.status).text
           /\ badgeColor' = BadgeFor(obj.status).color
    /\ obj.type = "browser_state" => browserState' = obj.state
    /\ obj.type = "error" => notifications' = Append(notifications, ErrorOf(obj))

\* C17: the step that takes an inbound event broadcasts the event as it was
\* parsed, once to every port whose channel is open, and performs the side
\* effect of its type: the badge for a task_update, the stored browser state
\* overwritten for a browser_state, one notifications.create call with the
\* error text for an error, also when that text is empty.  The broadcast
\* comes before the switch: it is made even for a null value, on which the
\* switch throws.  No frame changes the router's state without a broadcast in
\* the same step.
C17_BroadcastThenSideEffect ==
    [][FrameStep =>
           /\ \E f \in Frames :
                  /\ BroadcastOf(f)
                  /\ Message(f)
                  /\ f \in EventFrames =>
                         /\ \A p \in Surfaces : Connected(p) => last'.got[p] = 1
                         /\ SideEffect(f.obj)
                  /\ f.text = "null" => UNCHANGED routerVars
           /\ \/ UNCHANGED routerVars
              \/ last'.msg # NoBroadcast.msg]_vars

\* An error event with an empty error text was broadcast to a popup just now
\* and the notification was raised with the empty text.
C17_Witness ==
    /\ last.msg = [type |-> "error", error |-> ""]
    /\ \E p \in Surfaces : last.got[p] = 1
    /\ notifications = <<"">>

\* One postMessage call on every port of the registry, accepted by every port
\* whose channel is open, in the step being taken.
OneToEach ==
    \A p \in Surfaces :
        /\ last'.tried[p] = (IF p \in Range(ports) THEN 1 ELSE 0)
        /\ (Connected(p) => last'.got[p] = 1)

\* C18: the step of a socket's open event sets the reconnect counter to 0
\* and broadcasts connection_status connected once to every port of the
\* registry; the step of a close event, of the current socket or of a
\* replaced one, broadcasts connection_status disconnected once to every
\* port, whether or not it schedules a reconnect, and a reconnect is
\* scheduled by no step without that broadcast.
C18_OpenResetsCloseAnnounces ==
    [][/\ SocketOpen =>
              /\ reconnectAttempts' = 0
              /\ last'.msg = ConnectionStatus("connected")
              /\ OneToEach
       /\ (SocketClose \/ SupersededClose) =>
              /\ last'.msg = ConnectionStatus("disconnected")
              /\ OneToEach
       /\ Len(reconnectTimers') > Len(reconnectTimers) =>
              /\ last'.msg = ConnectionStatus("disconnected")
              /\ OneToEach]_vars

\* The third socket opened just now, after two reconnects with delays 1000
\* and 2000 ms: the counter is back at 0 and a popup was sent connected.
C18_Witness ==
    /\ ws = "OPEN"
    /\ last.msg = ConnectionStatus("connected")
    /\ \E p \in Surfaces : last.got[p] = 1 /\ shown[p] = "connected"
    /\ reconnectAttempts = 0
    /\ lastDelay = 2000

\* No socket event is outstanding: no replaced socket waits for its close
\* event and the current socket is not connecting.
Settled == superseded = 0 /\ ws \in {"OPEN", "CLOSED"}

\* C19: while no socket event is outstanding, the connection status last
\* sent to every popup whose channel is open is the state of the current
\* socket: connected if it is open, disconnected if it is closed.
C19_ShownStatusAgrees ==
    Settled =>
        \A p \in Surfaces :
            Connected(p) =>
                shown[p] = (IF ws = "OPEN" THEN "connected" ELSE "disconnected")

\* The positions of an executeTask call that has not ended.
InFlight == {"create", "json", "execute"}

\* C20: every executeTask call is idle, in flight or over with its promise
\* fulfilled, never rejected; a call that is over has made one broadcast, a
\* task_created or an error, and a call that is not over has made none;
\* a call whose request failed at the network level or whose create response
\* could not be read is over with an error broadcast.  The step that ends a
\* call is the one that makes its broadcast, whatever ports are registered
\* then and whatever the other calls are doing.
C20_OneTerminalBroadcast ==
    /\ [](\A i \in Submissions :
            /\ sub[i].pc \in {"idle", "done"} \cup InFlight
            /\ sub[i].pc = "done" =>
                   /\ Len(sub[i].out) = 1
                   /\ sub[i].out[1].type \in {"task_created", "error"}
            /\ sub[i].pc # "done" => sub[i].out = <<>>
            /\ (\/ sub[i].create = "neterr"
                \/ sub[i].exec = "neterr"
                \/ sub[i].taskId \in {"garbage", "null"}) =>
                   /\ sub[i].pc = "done"
                   /\ sub[i].out[1].type = "error")
    /\ [][\A i \in Submissions :
            sub[i].pc \in InFlight /\ sub'[i].pc \notin InFlight =>
                /\ sub'[i].pc = "done"
                /\ last'.msg = sub'[i].out[1]
                /\ \A j \in Submissions : j # i => sub'[j] = sub[j]
                /\ OneToEach]_vars

\* Two calls were in flight together; the first ended on a network failure
\* of its create request, the second ended just now on a create response that
\* could not be read, after the popup that submitted them had gone: its error
\* broadcast was made to an empty registry.
C20_Witness ==
    /\ sub[1].pc = "done" /\ sub[1].create = "neterr"
    /\ sub[2].pc = "done" /\ sub[2].taskId = "garbage"
    /\ last.msg = sub[2].out[1]
    /\ last.at = {}
    /\ ports = <<>>

====
